---- MODULE Spec2Model ----
(***************************************************************************)
(* Nepal Forest Health Monitor: one run of main() in src/app.py (Spec),    *)
(* the monthly series of src/utils/gee_utils.py (SpecSeries), the analysis *)
(* up to the maps for every radius (SpecArea), and the gazetteer of        *)
(* src/utils/nepal_data.py: its search (SpecSearch), its merge (SpecMerge). *)
(*                                                                         *)
(* Numbers.  An NDVI value returned by the backend is an integer count of  *)
(* 1e-5 units (40000 is 0.40000).  A percentage change is an exact         *)
(* rational [num, den] with den > 0; the comparisons of the code are       *)
(* cross-multiplied.  Binary floating-point rounding is not modelled.      *)
(* Strings that the code inspects are sequences of tokens; names of the    *)
(* gazetteer and queries are sequences of ASCII code points; dates are     *)
(* tuples <<year, m1, m2, d1, d2>> of the year and the four digits of      *)
(* month and day; coordinates are integers in 1e-4 degrees.                *)
(***************************************************************************)
EXTENDS Integers, Sequences, FiniteSets, TLC

\* ---------------------------------------------------------------- bounds
\* at most this many months of one series call get a backend response other
\* than "images found, non-zero mean"
MaxSpecial == 2

\* ------------------------------------------------------- optional values
\* Python None / a present number
NoneNum == [present |-> FALSE, val |-> 0]
Some(x) == [present |-> TRUE, val |-> x]
\* Python None / a present string
NoneStr == [present |-> FALSE, val |-> ""]
SomeStr(s) == [present |-> TRUE, val |-> s]
\* Python truth value of an optional float: None and 0.0 are false
Truthy(v) == v.present /\ v.val # 0
\* Python truth value of an optional string: None and "" are false
TruthyStr(s) == s.present /\ s.val # ""

\* ------------------------------------------------------------ input sets
\* GEE_PROJECT_ID in the environment
ProjectIds == {NoneStr, SomeStr(""), SomeStr("nepal-forest")}
\* GEMINI_API_KEY in the environment
ApiKeys == {NoneStr, SomeStr(""), SomeStr("your_gemini_api_key_here"), SomeStr("key")}
\* mean NDVI of the earlier composite, as the backend may return it
Mean1Values == {NoneNum, Some(0), Some(40000), Some(-40000)}
\* mean NDVI of the later composite
Mean2Values == {NoneNum, Some(0), Some(34000), Some(35999), Some(36000),
                Some(38000), Some(39999), Some(40000), Some(42000)}
\* months offered to the session run (the selectbox offers 1..12)
UiMonths == {11, 12}
\* all months of the selectbox
AllMonths == 1..12
\* year given to the series when it is exercised on its own
SeriesYears == {2023}
\* monthly means the backend may return when it has images
MonthMeans == {NoneNum, Some(0), Some(61234)}
\* texts the hosted model may answer with
ModelTexts == {<<>>, <<"Forest report">>, <<"Error", " margins are small">>}
\* messages of the exceptions the model client may raise
ExcMessages == {<<>>, <<"quota exceeded">>}

\* ------------------------------------------------------------- variables
VARIABLES
  project_id,        \* os.getenv('GEE_PROJECT_ID')
  gemini_api_key,    \* os.getenv('GEMINI_API_KEY')
  pc,                \* position of the run in main()
  start_month, end_month, year1, year2, buffer_km,
  generate_report, analyze_button,          \* sidebar widgets
  calls,             \* backend requests issued in this run, in order
  shown,             \* what the run has put on the page
  mean_ndvi1, mean_ndvi2, ndvi_change_pct,
  alert,             \* box drawn by display_degradation_alert
  layer_added1, layer_added2,
  month, results,    \* loop variable and list of calculate_ndvi_timeseries
  monthLog,          \* what the backend answered for each month visited
  timeseries,        \* main's variable; timeseries_set says it is bound
  timeseries_set,
  status,            \* status line of the prompt
  report,            \* value returned by generate_forest_health_report
  llm,               \* what the model client did in this run
  exc,               \* exception that reached main's except clause
  location_method, search_query, filtered_locations,
  selected_location, lat, lon,              \* sidebar: the place
  looked_up,         \* get_location_coords was called in this run
  aoi, dates,        \* area and date strings given to the backend
  circle1, circle2,  \* radius of the circle on each map, 0 before it is drawn
  metric1, metric2,  \* the two mean NDVI metrics as displayed
  prompt,            \* the two values as written into the prompt
  faults,            \* backend requests of this run that raised
  tables,            \* the district table and the forest table of nepal_data
  all_locations      \* the merged gazetteer, once get_all_locations has run

env == <<project_id, gemini_api_key, tables>>
widgets == <<start_month, end_month, year1, year2, buffer_km, generate_report, analyze_button>>
means == <<mean_ndvi1, mean_ndvi2>>
layers == <<layer_added1, layer_added2>>
series == <<month, results, monthLog>>
narrative == <<status, report, llm>>
place == <<location_method, search_query, filtered_locations, selected_location,
           lat, lon, looked_up, all_locations>>
geometry == <<aoi, dates, circle1, circle2>>
display == <<metric1, metric2>>
vars == <<project_id, gemini_api_key, pc, start_month, end_month, year1, year2,
          buffer_km, generate_report, analyze_button, calls, shown, mean_ndvi1,
          mean_ndvi2, ndvi_change_pct, alert, layer_added1, layer_added2, month,
          results, monthLog, timeseries, timeseries_set, status, report, llm, exc,
          location_method, search_query, filtered_locations, selected_location,
          lat, lon, looked_up, aoi, dates, circle1, circle2, metric1, metric2,
          prompt, faults, tables, all_locations>>

\* ------------------------------------------------------ percentage change
\* the rational n/d with a positive denominator
Rat(n, d) == IF d < 0 THEN [num |-> -n, den |-> -d] ELSE [num |-> n, den |-> d]
\* pct < k for an integer k
RatLt(p, k) == p.num < k * p.den
RatGe(p, k) == p.num >= k * p.den
RatGt(p, k) == p.num > k * p.den
RatEq(p, k) == p.num = k * p.den

\* variant: an unusable earlier value counts as a total loss
calc_ndvi_change_pct_loss(v1, v2) ==
  IF Truthy(v1) /\ Truthy(v2) /\ v1.val # 0
    THEN Rat((v2.val - v1.val) * 100, v1.val)
    ELSE Rat(-100, 1)

\* main(): "Calculate change"
calc_ndvi_change_pct(v1, v2) ==
  IF Truthy(v1) /\ Truthy(v2) /\ v1.val # 0
    THEN Rat((v2.val - v1.val) * 100, v1.val)
    ELSE Rat(0, 1)

\* variant: the first comparison is "<= -10"
display_degradation_alert_le(pct) ==
  IF ~RatGt(pct, -10) THEN "danger"
  ELSE IF RatLt(pct, -5) THEN "warning"
  ELSE IF RatGe(pct, 0) THEN "stable"
  ELSE "minor"

\* display_degradation_alert: which box is drawn
display_degradation_alert(pct) ==
  IF RatLt(pct, -10) THEN "danger"
  ELSE IF RatLt(pct, -5) THEN "warning"
  ELSE IF RatGe(pct, 0) THEN "stable"
  ELSE "minor"

\* variant: a change of exactly 0 is classed with the small losses
determine_health_status_le0(pct) ==
  IF RatLt(pct, -10) THEN "CRITICAL"
  ELSE IF RatLt(pct, -5) THEN "WARNING"
  ELSE IF ~RatGt(pct, 0) THEN "STABLE"
  ELSE "HEALTHY"

\* generate_forest_health_report: "Determine health status"
determine_health_status(pct) ==
  IF RatLt(pct, -10) THEN "CRITICAL"
  ELSE IF RatLt(pct, -5) THEN "WARNING"
  ELSE IF RatLt(pct, 0) THEN "STABLE"
  ELSE "HEALTHY"

\* ---------------------------------------------------------- monthly series
\* f"{year}-{month:02d}-{day:02d}": the year and the zero-padded digits
FormatDate(y, m, d) == <<y, m \div 10, m % 10, d \div 10, d % 10>>
\* variant: f"{year}-{month}", no zero padding
FormatLabel_unpadded(y, m) == IF m < 10 THEN <<y, m>> ELSE <<y, m \div 10, m % 10>>

\* f"{year}-{month:02d}"
FormatLabel(y, m) == <<y, m \div 10, m % 10>>
\* string order of two labels (equal lengths, compared field by field)
RECURSIVE LexLess(_, _)
LexLess(a, b) ==
  IF a = <<>> \/ b = <<>> THEN a = <<>> /\ b # <<>>
  ELSE IF a[1] # b[1] THEN a[1] < b[1]
  ELSE LexLess(Tail(a), Tail(b))

\* calculate_ndvi_timeseries: the date range of one month
month_start_date(y, m) == FormatDate(y, m, 1)
\* variant: the end is always day 01 of month + 1
month_end_date_norollover(y, m) == FormatDate(y, m + 1, 1)
month_end_date(y, m) == IF m = 12 THEN FormatDate(y + 1, 1, 1) ELSE FormatDate(y, m + 1, 1)

\* round(mean_ndvi, 4): 1e-5 units to 1e-4 units, ties to even
Round4(raw) ==
  LET q == raw \div 10
      r == raw % 10
  IN IF r < 5 THEN q
     ELSE IF r > 5 THEN q + 1
     ELSE IF q % 2 = 0 THEN q ELSE q + 1

\* what the backend may answer for one month: the image count query raises,
\* or counts; when it counts more than zero the mean reduction raises, or
\* returns None or a number
MonthResponses ==
  {[count_err |-> TRUE, count |-> 0, mean_err |-> FALSE, mean |-> NoneNum],
   [count_err |-> FALSE, count |-> 0, mean_err |-> FALSE, mean |-> NoneNum],
   [count_err |-> FALSE, count |-> 3, mean_err |-> TRUE, mean |-> NoneNum]}
  \cup {[count_err |-> FALSE, count |-> 3, mean_err |-> FALSE, mean |-> v] : v \in MonthMeans}

\* a response other than "images found, non-zero mean"
IsSpecial(resp) == resp.count_err \/ resp.count = 0 \/ resp.mean_err \/ ~Truthy(resp.mean)
RECURSIVE Specials(_)
Specials(log) ==
  IF log = <<>> THEN 0
  ELSE (IF IsSpecial(Head(log).resp) THEN 1 ELSE 0) + Specials(Tail(log))

\* backend requests one loop iteration issues
month_calls(resp) ==
  IF resp.count_err \/ resp.count = 0 THEN <<"size">> ELSE <<"size", "reduceRegion">>

\* variant: "if mean_ndvi:" in place of "if mean_ndvi is not None:"
timeseries_step_truthy(res, y, m, resp) ==
  IF resp.count_err THEN res
  ELSE IF resp.count > 0
    THEN IF resp.mean_err THEN res
         ELSE IF Truthy(resp.mean)
           THEN Append(res, [month |-> FormatLabel(y, m), ndvi |-> Some(Round4(resp.mean.val))])
           ELSE res
    ELSE res

\* calculate_ndvi_timeseries: body of the loop for one month, the list after it
timeseries_step(res, y, m, resp) ==
  IF resp.count_err THEN res
  ELSE IF resp.count > 0
    THEN IF resp.mean_err THEN res
         ELSE IF resp.mean.present
           THEN Append(res, [month |-> FormatLabel(y, m), ndvi |-> Some(Round4(resp.mean.val))])
           ELSE res
    ELSE res

\* variant: the except clause leaves the loop
after_month_break(m, last, resp) ==
  IF resp.count_err \/ (resp.count > 0 /\ resp.mean_err) THEN last + 1 ELSE m + 1

\* calculate_ndvi_timeseries: the loop variable after one iteration; the
\* except clause continues with the next month
after_month(m, last, resp) == m + 1

\* ------------------------------------------------------------- narrative
\* "Error generating report: "
ErrorPrefix == <<"Error", " generating report: ">>
\* variant: only the error string of the function counts as an error
StartsWithError_own(s) ==
  Len(s) >= Len(ErrorPrefix) /\ SubSeq(s, 1, Len(ErrorPrefix)) = ErrorPrefix
\* report.startswith("Error")
StartsWithError(s) == Len(s) > 0 /\ s[1] = "Error"
\* where the model client raises, if it does
FailStages == {"configure", "prompt", "generate"}
LlmBehaviours ==
  {[fail |-> "none", msg |-> <<>>, text |-> t] : t \in ModelTexts}
  \cup {[fail |-> f, msg |-> m, text |-> <<>>] : f \in FailStages, m \in ExcMessages}
NoLlm == [fail |-> "unused", msg |-> <<>>, text |-> <<>>]

\* variant: the client is configured before the try block
generate_forest_health_report_early(b, pct) ==
  [ret |-> IF b.fail = "none" THEN b.text ELSE ErrorPrefix \o b.msg,
   raised |-> b.fail = "configure",
   called |-> b.fail \in {"none", "generate"},
   status |-> IF b.fail = "configure" THEN "none" ELSE determine_health_status(pct)]

\* generate_forest_health_report: the returned string (ret), whether an
\* exception leaves the function (raised), whether the hosted model was
\* requested (called) and the status line when it was computed
generate_forest_health_report(b, pct) ==
  [ret |-> IF b.fail = "none" THEN b.text ELSE ErrorPrefix \o b.msg,
   raised |-> FALSE,
   called |-> b.fail \in {"none", "generate"},
   status |-> IF b.fail = "configure" THEN "none" ELSE determine_health_status(pct)]

\* variant: the placeholder of the sample .env file is accepted
key_usable_any(k) == TruthyStr(k)

\* main(): the key read from the environment is usable
key_usable(k) == TruthyStr(k) /\ k.val # "your_gemini_api_key_here"

\* variant: the key is looked at before the checkbox
narrative_branch_key_first(gen, k) ==
  IF key_usable(k) THEN "generate"
  ELSE IF gen THEN "warn"
  ELSE "skip"

\* main(): which branch the report section takes
narrative_branch(gen, k) ==
  IF ~gen THEN "skip"
  ELSE IF key_usable(k) THEN "generate"
  ELSE "warn"

\* variant: "if project_id is None"
missing_project_none(id) == ~id.present

\* initialize_gee: "if not project_id"
missing_project(id) == ~TruthyStr(id)

\* ------------------------------------------------------------ gazetteer
\* A string compared character by character is the sequence of its code
\* points; a coordinate is an integer count of 1e-4 degrees; a dict is the
\* sequence of its items in insertion order.

\* longest query typed into the search box when the search is exercised alone
MaxQueryLen == 2
\* largest percentage change, either sign, given to the classifiers alone
MaxPct == 12

\* NEPAL_CENTER
NEPAL_CENTER == [lat |-> 283949, lon |-> 841240]
\* NEPAL_DISTRICTS (three of its entries)
NEPAL_DISTRICTS == <<
    \* "Kathmandu"
    [name |-> <<75, 97, 116, 104, 109, 97, 110, 100, 117>>,
     lat |-> 277172, lon |-> 853240],
    \* "Kaski"
    [name |-> <<75, 97, 115, 107, 105>>,
     lat |-> 282096, lon |-> 839856],
    \* "Bardiya"
    [name |-> <<66, 97, 114, 100, 105, 121, 97>>,
     lat |-> 284167, lon |-> 814167]>>
\* COMMUNITY_FORESTS (two of its entries)
COMMUNITY_FORESTS == <<
    \* "Shivapuri National Park Buffer (Kathmandu)"
    [name |-> <<83, 104, 105, 118, 97, 112, 117, 114, 105, 32, 78, 97, 116, 105, 111, 110, 97, 108, 32, 80, 97, 114, 107, 32, 66, 117, 102, 102, 101, 114, 32, 40, 75, 97, 116, 104, 109, 97, 110, 100, 117, 41>>,
     lat |-> 278000, lon |-> 854000],
    \* "Bardiya National Park Buffer"
    [name |-> <<66, 97, 114, 100, 105, 121, 97, 32, 78, 97, 116, 105, 111, 110, 97, 108, 32, 80, 97, 114, 107, 32, 66, 117, 102, 102, 101, 114>>,
     lat |-> 284000, lon |-> 814500]>>

\* key in d
HasKey(d, k) == \E i \in 1..Len(d) : d[i].name = k
\* d.update(other): a key already in d keeps its place and takes the new
\* value, a new key is added at the end
RECURSIVE dict_update(_, _)
dict_update(d, other) ==
  IF other = <<>> THEN d
  ELSE LET e == Head(other)
           d1 == IF HasKey(d, e.name)
                   THEN [i \in 1..Len(d) |-> IF d[i].name = e.name THEN e ELSE d[i]]
                   ELSE Append(d, e)
       IN dict_update(d1, Tail(other))

\* variant: the forest table is loaded first
merge_locations_districts_last(districts, forests) ==
  dict_update(dict_update(<<>>, forests), districts)

\* get_all_locations, for any two tables
merge_locations(districts, forests) == dict_update(dict_update(<<>>, districts), forests)
\* get_all_locations()
get_all_locations == merge_locations(NEPAL_DISTRICTS, COMMUNITY_FORESTS)
\* d.keys()
Keys(d) == [i \in 1..Len(d) |-> d[i].name]

\* str.lower() on one ASCII character
LowerChar(c) == IF c >= 65 /\ c <= 90 THEN c + 32 ELSE c
\* str.lower()
Lower(s) == [i \in 1..Len(s) |-> LowerChar(s[i])]
\* sub in s
Contains(sub, s) ==
  \E i \in 0..(Len(s) - Len(sub)) : \A j \in 1..Len(sub) : s[i + j] = sub[j]

\* variant: the names are not lowered before the comparison
search_location_exact(query) ==
  SortSeq(SelectSeq(Keys(get_all_locations), LAMBDA n : Contains(Lower(query), n)), LexLess)

\* search_location(query)
search_location(query) ==
  SortSeq(SelectSeq(Keys(get_all_locations), LAMBDA n : Contains(Lower(query), Lower(n))),
          LexLess)

\* get_location_coords(name): the coordinates, or None
get_location_coords(name) ==
  IF HasKey(get_all_locations, name)
    THEN LET e == CHOOSE x \in {get_all_locations[i] : i \in 1..Len(get_all_locations)} :
                    x.name = name
         IN [found |-> TRUE, lat |-> e.lat, lon |-> e.lon]
    ELSE [found |-> FALSE, lat |-> 0, lon |-> 0]

\* what the selectbox shows as the chosen place
NoPlace == [kind |-> "none", name |-> <<>>]

\* variant: the first entry is looked up without testing the list
select_location_unchecked(filtered) ==
  LET name == IF filtered # <<>> THEN filtered[1] ELSE <<>>
      c == get_location_coords(name)
  IN [selected |-> [kind |-> "name", name |-> name],
      lat |-> c.lat, lon |-> c.lon,
      looked_up |-> TRUE, warned |-> FALSE, raised |-> ~c.found]

\* main(): the selectbox keeps its default entry (index 0) and its
\* coordinates are looked up, or the warning and the centre of Nepal
select_location(filtered) ==
  IF filtered # <<>>
    THEN LET c == get_location_coords(filtered[1])
         IN [selected |-> [kind |-> "name", name |-> filtered[1]],
             lat |-> c.lat, lon |-> c.lon,
             looked_up |-> TRUE, warned |-> FALSE, raised |-> ~c.found]
    ELSE [selected |-> [kind |-> "unknown", name |-> <<>>],
          lat |-> NEPAL_CENTER.lat, lon |-> NEPAL_CENTER.lon,
          looked_up |-> FALSE, warned |-> TRUE, raised |-> FALSE]

\* the radio button
LocationMethods == {"District/Forest", "Coordinates"}
\* what the user may type into the search box: nothing, or "zzz"
UiQueries == {<<>>, <<122, 122, 122>>}
\* the latitude and longitude number inputs (the defaults)
UiCoords == {NEPAL_CENTER}
\* position of the radius slider chosen in a session run (it offers 1..20)
UiRadii == {20}
\* characters of the queries when the search is exercised alone: K k A a z space (
QueryChars == {75, 107, 65, 97, 122, 32, 40}
\* "kath", "KATH", "Kathmandu", "zzz", "bardiya n"
NamedQueries == {<<107, 97, 116, 104>>, <<75, 65, 84, 72>>, <<75, 97, 116, 104, 109, 97, 110, 100, 117>>, <<122, 122, 122>>, <<98, 97, 114, 100, 105, 121, 97, 32, 110>>}
RECURSIVE SeqsUpTo(_, _)
SeqsUpTo(S, n) ==
  IF n = 0 THEN {<<>>}
  ELSE LET shorter == SeqsUpTo(S, n - 1)
       IN shorter \cup {Append(q, c) : q \in shorter, c \in S}
SearchQueries == SeqsUpTo(QueryChars, MaxQueryLen) \cup NamedQueries

\* variant: the buffer is given the kilometres as they are
create_aoi_from_point_km(la, lo, km) == [lat |-> la, lon |-> lo, radius_m |-> km]
\* create_aoi_from_point(lat, lon, buffer_km): a disk, its radius in metres
create_aoi_from_point(la, lo, km) == [lat |-> la, lon |-> lo, radius_m |-> km * 1000]
\* main(): radius of the folium.Circle of a comparison map
circle_radius(km) == km * 1000
NoAoi == [lat |-> 0, lon |-> 0, radius_m |-> 0]

\* main(): "Format dates"
format_dates(y1, y2, sm, em) ==
  [start_date1 |-> FormatDate(y1, sm, 1), end_date1 |-> FormatDate(y1, em, 28),
   start_date2 |-> FormatDate(y2, sm, 1), end_date2 |-> FormatDate(y2, em, 28)]
NoDates == [start_date1 |-> <<>>, end_date1 |-> <<>>, start_date2 |-> <<>>, end_date2 |-> <<>>]

\* f"{mean_ndvi:.4f}" if mean_ndvi else "N/A"
NA == [na |-> TRUE, digits |-> 0]
format_ndvi(v) == IF Truthy(v) THEN [na |-> FALSE, digits |-> Round4(v.val)] ELSE NA

\* ------------------------------------------------------------------- runs
\* generate_forest_health_report: "Format NDVI values properly"
build_prompt(v1, v2) == [built |-> TRUE, ndvi1_str |-> format_ndvi(v1), ndvi2_str |-> format_ndvi(v2)]
NoPrompt == [built |-> FALSE, ndvi1_str |-> NA, ndvi2_str |-> NA]

\* the two tables as nepal_data.py defines them
RepositoryTables == [districts |-> NEPAL_DISTRICTS, forests |-> COMMUNITY_FORESTS]

\* a script run starts with nothing computed and nothing on the page
RunStart ==
  /\ pc = "start"
  /\ start_month = 1 /\ end_month = 3 /\ year1 = 2022 /\ year2 = 2023
  /\ buffer_km = 5 /\ generate_report = TRUE /\ analyze_button = FALSE
  /\ calls = <<>> /\ shown = {}
  /\ mean_ndvi1 = NoneNum /\ mean_ndvi2 = NoneNum
  /\ ndvi_change_pct = Rat(0, 1) /\ alert = "none"
  /\ layer_added1 = FALSE /\ layer_added2 = FALSE
  /\ month = 0 /\ results = <<>> /\ monthLog = <<>>
  /\ timeseries = <<>> /\ timeseries_set = FALSE
  /\ status = "none" /\ report = <<>> /\ llm = NoLlm
  /\ exc = "none"
  /\ location_method = "District/Forest" /\ search_query = <<>>
  /\ filtered_locations = <<>> /\ selected_location = NoPlace
  /\ lat = NEPAL_CENTER.lat /\ lon = NEPAL_CENTER.lon /\ looked_up = FALSE
  /\ aoi = NoAoi /\ dates = NoDates /\ circle1 = 0 /\ circle2 = 0
  /\ metric1 = NA /\ metric2 = NA /\ prompt = NoPrompt
  /\ faults = {} /\ all_locations = <<>>

Init ==
  /\ project_id \in ProjectIds
  /\ gemini_api_key \in ApiKeys
  /\ tables = RepositoryTables
  /\ RunStart

\* variant: the except clause of the analysis shows nothing
Fail_silent(src) ==
  /\ exc' = src
  /\ shown' = shown
  /\ pc' = "done"

\* main(): the except clause of the analysis
Fail(src) ==
  /\ exc' = src
  /\ shown' = shown \cup {"analysis_error", "retry_hint"}
  /\ pc' = "done"

\* initialize_gee() and the st.stop() of main()
InitializeGee ==
  /\ pc = "start"
  /\ IF missing_project(project_id)
       THEN /\ shown' = shown \cup {"config_error", "config_hint"}
            /\ calls' = calls
            /\ faults' = faults
            /\ pc' = "stopped"
       ELSE \E ok \in BOOLEAN :
            /\ calls' = Append(calls, "ee.Initialize")
            /\ IF ok THEN shown' = shown /\ pc' = "sidebar" /\ faults' = faults
                     ELSE /\ shown' = shown \cup {"init_error", "init_hint"}
                          /\ faults' = faults \cup {"ee.Initialize"}
                          /\ pc' = "stopped"
  /\ UNCHANGED <<env, widgets, means, ndvi_change_pct, alert, layers, series,
                 timeseries, timeseries_set, narrative, exc, place, geometry,
                 display, prompt>>

\* main(): the place chosen in the sidebar, by name or by coordinates
SidebarLocation ==
  /\ pc = "sidebar"
  /\ \E method \in LocationMethods :
       /\ location_method' = method
       /\ IF method = "District/Forest"
            THEN \E q \in UiQueries :
                   LET location_names == SortSeq(Keys(get_all_locations), LexLess)
                       filtered == IF q # <<>> THEN search_location(q) ELSE location_names
                       r == select_location(filtered)
                   IN /\ search_query' = q
                      /\ filtered_locations' = filtered
                      /\ all_locations' = get_all_locations
                      /\ selected_location' = r.selected
                      /\ lat' = r.lat /\ lon' = r.lon
                      /\ looked_up' = r.looked_up
                      /\ shown' = shown \cup {"location_widgets"} \cup
                                  (IF r.warned THEN {"no_match_warning"} ELSE {})
                      /\ pc' = IF r.raised THEN "crashed" ELSE "sidebar_controls"
            ELSE \E c \in UiCoords :
                   /\ lat' = c.lat /\ lon' = c.lon
                   /\ selected_location' = [kind |-> "custom", name |-> <<>>]
                   /\ shown' = shown \cup {"location_widgets"}
                   /\ pc' = "sidebar_controls"
                   /\ UNCHANGED <<search_query, filtered_locations, looked_up,
                                  all_locations>>
  /\ UNCHANGED <<env, widgets, calls, means, ndvi_change_pct, alert, layers, series,
                 timeseries, timeseries_set, narrative, exc, geometry, display,
                 prompt, faults>>

\* main(): the sidebar widgets take the user's selections
Sidebar ==
  /\ pc = "sidebar_controls"
  /\ buffer_km' \in UiRadii
  /\ start_month' \in UiMonths
  /\ end_month' \in UiMonths
  /\ generate_report' \in BOOLEAN
  /\ analyze_button' \in BOOLEAN
  /\ shown' = shown \cup {"sidebar"}
  /\ pc' = "main"
  /\ UNCHANGED <<env, year1, year2, calls, means, ndvi_change_pct, alert,
                 layers, series, timeseries, timeseries_set, narrative, exc, place,
                 geometry, display, prompt, faults>>

\* main(): the page shown when the button was not pressed
DefaultView ==
  /\ pc = "main" /\ ~analyze_button
  /\ shown' = shown \cup {"default_view"}
  /\ pc' = "done"
  /\ UNCHANGED <<env, widgets, calls, means, ndvi_change_pct, alert, layers, series,
                 timeseries, timeseries_set, narrative, exc, place, geometry,
                 display, prompt, faults>>

\* main(): create the area, format the dates and request the composite of year 1
FetchComposite1 ==
  /\ pc = "main" /\ analyze_button
  /\ aoi' = create_aoi_from_point(lat, lon, buffer_km)
  /\ dates' = format_dates(year1, year2, start_month, end_month)
  /\ calls' = Append(calls, "composite1")
  /\ \E ok \in BOOLEAN :
       IF ok THEN pc' = "composite2" /\ UNCHANGED <<shown, exc, faults>>
             ELSE Fail("composite1") /\ faults' = faults \cup {"composite1"}
  /\ UNCHANGED <<env, widgets, means, ndvi_change_pct, alert, layers, series,
                 timeseries, timeseries_set, narrative, place, circle1, circle2,
                 display, prompt>>

\* main(): request the composite of year 2
FetchComposite2 ==
  /\ pc = "composite2"
  /\ calls' = Append(calls, "composite2")
  /\ \E ok \in BOOLEAN :
       IF ok THEN pc' = "mean1" /\ UNCHANGED <<shown, exc, faults>>
             ELSE Fail("composite2") /\ faults' = faults \cup {"composite2"}
  /\ UNCHANGED <<env, widgets, means, ndvi_change_pct, alert, layers, series,
                 timeseries, timeseries_set, narrative, place, geometry, display,
                 prompt>>

\* compute_mean_ndvi(composite1, aoi)
ComputeMean1 ==
  /\ pc = "mean1"
  /\ calls' = Append(calls, "mean1")
  /\ \/ /\ mean_ndvi1' \in Mean1Values
        /\ pc' = "mean2"
        /\ UNCHANGED <<shown, exc, faults>>
     \/ /\ Fail("mean1")
        /\ faults' = faults \cup {"mean1"}
        /\ UNCHANGED mean_ndvi1
  /\ UNCHANGED <<env, widgets, mean_ndvi2, ndvi_change_pct, alert, layers, series,
                 timeseries, timeseries_set, narrative, place, geometry, display,
                 prompt>>

\* variant: a failed reduction is taken as "no value" and the run goes on
ComputeMean2_swallow ==
  /\ pc = "mean2"
  /\ calls' = Append(calls, "mean2")
  /\ \/ /\ mean_ndvi2' \in Mean2Values
        /\ pc' = "assess"
        /\ UNCHANGED <<shown, exc, faults>>
     \/ /\ mean_ndvi2' = NoneNum
        /\ pc' = "assess"
        /\ faults' = faults \cup {"mean2"}
        /\ UNCHANGED <<shown, exc>>
  /\ UNCHANGED <<env, widgets, mean_ndvi1, ndvi_change_pct, alert, layers, series,
                 timeseries, timeseries_set, narrative, place, geometry, display,
                 prompt>>

\* compute_mean_ndvi(composite2, aoi)
ComputeMean2 ==
  /\ pc = "mean2"
  /\ calls' = Append(calls, "mean2")
  /\ \/ /\ mean_ndvi2' \in Mean2Values
        /\ pc' = "assess"
        /\ UNCHANGED <<shown, exc, faults>>
     \/ /\ Fail("mean2")
        /\ faults' = faults \cup {"mean2"}
        /\ UNCHANGED mean_ndvi2
  /\ UNCHANGED <<env, widgets, mean_ndvi1, ndvi_change_pct, alert, layers, series,
                 timeseries, timeseries_set, narrative, place, geometry, display,
                 prompt>>

\* main(): percentage change, metrics row and degradation alert
AssessChange ==
  /\ pc = "assess"
  /\ ndvi_change_pct' = calc_ndvi_change_pct(mean_ndvi1, mean_ndvi2)
  /\ metric1' = format_ndvi(mean_ndvi1)
  /\ metric2' = format_ndvi(mean_ndvi2)
  /\ alert' = display_degradation_alert(ndvi_change_pct')
  /\ shown' = shown \cup {"success", "metrics", "alert"}
  /\ pc' = "map1"
  /\ UNCHANGED <<env, widgets, calls, means, layers, series, timeseries,
                 timeseries_set, narrative, exc, place, geometry, prompt, faults>>

\* add_ee_layer: the tile request may fail; the map is drawn either way
AddLayer1 ==
  /\ pc = "map1"
  /\ calls' = Append(calls, "getMapId1")
  /\ \E ok \in BOOLEAN :
       /\ layer_added1' = ok
       /\ faults' = IF ok THEN faults ELSE faults \cup {"getMapId1"}
       /\ shown' = shown \cup {"map1"} \cup
                   (IF ok THEN {"colorbar1"} ELSE {"layer_warning1", "layer_missing1"})
  /\ circle1' = circle_radius(buffer_km)
  /\ pc' = "map2"
  /\ UNCHANGED <<env, widgets, means, ndvi_change_pct, alert, layer_added2, series,
                 timeseries, timeseries_set, narrative, exc, place, aoi, dates,
                 circle2, display, prompt>>

\* variant: the report section follows the maps, the series is left out
AddLayer2_skip_series ==
  /\ pc = "map2"
  /\ calls' = Append(calls, "getMapId2")
  /\ \E ok \in BOOLEAN :
       /\ layer_added2' = ok
       /\ faults' = IF ok THEN faults ELSE faults \cup {"getMapId2"}
       /\ shown' = shown \cup {"map2"} \cup
                   (IF ok THEN {"colorbar2"} ELSE {"layer_warning2", "layer_missing2"})
  /\ circle2' = circle_radius(buffer_km)
  /\ pc' = "narrative"
  /\ UNCHANGED <<env, widgets, means, ndvi_change_pct, alert, layer_added1, series,
                 timeseries, timeseries_set, narrative, exc, place, aoi, dates,
                 circle1, display, prompt>>

\* add_ee_layer and the map of the second tab
AddLayer2 ==
  /\ pc = "map2"
  /\ calls' = Append(calls, "getMapId2")
  /\ \E ok \in BOOLEAN :
       /\ layer_added2' = ok
       /\ faults' = IF ok THEN faults ELSE faults \cup {"getMapId2"}
       /\ shown' = shown \cup {"map2"} \cup
                   (IF ok THEN {"colorbar2"} ELSE {"layer_warning2", "layer_missing2"})
  /\ circle2' = circle_radius(buffer_km)
  /\ pc' = "ts_call"
  /\ UNCHANGED <<env, widgets, means, ndvi_change_pct, alert, layer_added1, series,
                 timeseries, timeseries_set, narrative, exc, place, aoi, dates,
                 circle1, display, prompt>>

\* calculate_ndvi_timeseries(aoi, year2, start_month, end_month): entry
TimeseriesCall ==
  /\ pc = "ts_call"
  /\ month' = start_month
  /\ results' = <<>>
  /\ monthLog' = <<>>
  /\ pc' = "ts_loop"
  /\ UNCHANGED <<env, widgets, calls, shown, means, ndvi_change_pct, alert, layers,
                 timeseries, timeseries_set, narrative, exc, place, geometry,
                 display, prompt, faults>>

\* calculate_ndvi_timeseries: one iteration of the loop
TimeseriesStep ==
  /\ pc = "ts_loop" /\ month <= end_month
  /\ \E resp \in MonthResponses :
       /\ IsSpecial(resp) => Specials(monthLog) < MaxSpecial
       /\ monthLog' = Append(monthLog, [month |-> month,
                                        start_date |-> month_start_date(year2, month),
                                        end_date |-> month_end_date(year2, month),
                                        resp |-> resp])
       /\ calls' = calls \o month_calls(resp)
       /\ results' = timeseries_step(results, year2, month, resp)
       /\ month' = after_month(month, end_month, resp)
  /\ UNCHANGED <<env, widgets, pc, shown, means, ndvi_change_pct, alert, layers,
                 timeseries, timeseries_set, narrative, exc, place, geometry,
                 display, prompt, faults>>

\* calculate_ndvi_timeseries: return results
TimeseriesReturn ==
  /\ pc = "ts_loop" /\ month > end_month
  /\ timeseries' = results
  /\ timeseries_set' = TRUE
  /\ pc' = "trend"
  /\ UNCHANGED <<env, widgets, calls, shown, means, ndvi_change_pct, alert, layers,
                 series, narrative, exc, place, geometry, display, prompt, faults>>

\* main(): trend chart, or the warning when the series is empty
ShowTrend ==
  /\ pc = "trend"
  /\ shown' = shown \cup (IF timeseries # <<>> THEN {"trend_chart"} ELSE {"trend_warning"})
  /\ pc' = "narrative"
  /\ UNCHANGED <<env, widgets, calls, means, ndvi_change_pct, alert, layers, series,
                 timeseries, timeseries_set, narrative, exc, place, geometry,
                 display, prompt, faults>>

\* main(): "AI-Generated Professional Report"
NarrativeSection ==
  /\ pc = "narrative"
  /\ IF narrative_branch(generate_report, gemini_api_key) = "skip"
       THEN /\ pc' = "done"
            /\ UNCHANGED <<calls, shown, narrative, exc, prompt, faults>>
     ELSE IF narrative_branch(generate_report, gemini_api_key) = "warn"
       THEN /\ shown' = shown \cup {"report_header", "key_warning"}
            /\ pc' = "done"
            /\ UNCHANGED <<calls, narrative, exc, prompt, faults>>
     ELSE \E b \in LlmBehaviours :
            LET r == generate_forest_health_report(b, ndvi_change_pct) IN
            /\ llm' = b
            /\ calls' = IF r.called THEN Append(calls, "gemini") ELSE calls
            /\ faults' = IF b.fail = "none" THEN faults ELSE faults \cup {"gemini"}
            /\ status' = r.status
            /\ prompt' = IF b.fail \in {"configure", "prompt"}
                           THEN NoPrompt
                           ELSE build_prompt(mean_ndvi1, mean_ndvi2)
            /\ IF r.raised
                 THEN /\ Fail("report")
                      /\ UNCHANGED report
                 ELSE /\ report' = r.ret
                      /\ shown' = shown \cup {"report_header"} \cup
                           (IF Len(r.ret) > 0 /\ ~StartsWithError(r.ret)
                              THEN {"ai_report", "download_button"}
                              ELSE {"report_error"})
                      /\ pc' = "done"
                      /\ UNCHANGED exc
  /\ UNCHANGED <<env, widgets, means, ndvi_change_pct, alert, layers, series,
                 timeseries, timeseries_set, place, geometry, display>>

\* the user changes a widget or presses the button: the script runs again
Rerun ==
  /\ pc \in {"done", "stopped", "crashed"}
  /\ pc' = "start"
  /\ start_month' = 1 /\ end_month' = 3 /\ year1' = 2022 /\ year2' = 2023
  /\ buffer_km' = 5 /\ generate_report' = TRUE /\ analyze_button' = FALSE
  /\ calls' = <<>> /\ shown' = {}
  /\ mean_ndvi1' = NoneNum /\ mean_ndvi2' = NoneNum
  /\ ndvi_change_pct' = Rat(0, 1) /\ alert' = "none"
  /\ layer_added1' = FALSE /\ layer_added2' = FALSE
  /\ month' = 0 /\ results' = <<>> /\ monthLog' = <<>>
  /\ timeseries' = <<>> /\ timeseries_set' = FALSE
  /\ status' = "none" /\ report' = <<>> /\ llm' = NoLlm
  /\ exc' = "none"
  /\ location_method' = "District/Forest" /\ search_query' = <<>>
  /\ filtered_locations' = <<>> /\ selected_location' = NoPlace
  /\ lat' = NEPAL_CENTER.lat /\ lon' = NEPAL_CENTER.lon /\ looked_up' = FALSE
  /\ aoi' = NoAoi /\ dates' = NoDates /\ circle1' = 0 /\ circle2' = 0
  /\ metric1' = NA /\ metric2' = NA /\ prompt' = NoPrompt
  /\ faults' = {} /\ all_locations' = <<>>
  /\ UNCHANGED env

Next ==
  \/ InitializeGee
  \/ SidebarLocation
  \/ Sidebar
  \/ DefaultView
  \/ FetchComposite1
  \/ FetchComposite2
  \/ ComputeMean1
  \/ ComputeMean2
  \/ AssessChange
  \/ AddLayer1
  \/ AddLayer2
  \/ TimeseriesCall
  \/ TimeseriesStep
  \/ TimeseriesReturn
  \/ ShowTrend
  \/ NarrativeSection
  \/ Rerun

Spec == Init /\ [][Next]_vars

\* -------------------------------------------- the series exercised alone
\* calculate_ndvi_timeseries entered with any year and any two months
SeriesInit ==
  /\ project_id = SomeStr("nepal-forest")
  /\ gemini_api_key = NoneStr
  /\ pc = "ts_call"
  /\ start_month \in AllMonths
  /\ end_month \in AllMonths
  /\ year1 = 2019
  /\ year2 \in SeriesYears
  /\ buffer_km = 5 /\ generate_report = FALSE /\ analyze_button = TRUE
  /\ calls = <<>> /\ shown = {}
  /\ mean_ndvi1 = NoneNum /\ mean_ndvi2 = NoneNum
  /\ ndvi_change_pct = Rat(0, 1) /\ alert = "none"
  /\ layer_added1 = FALSE /\ layer_added2 = FALSE
  /\ month = 0 /\ results = <<>> /\ monthLog = <<>>
  /\ timeseries = <<>> /\ timeseries_set = FALSE
  /\ status = "none" /\ report = <<>> /\ llm = NoLlm
  /\ exc = "none"
  /\ location_method = "Coordinates" /\ search_query = <<>>
  /\ filtered_locations = <<>> /\ selected_location = [kind |-> "custom", name |-> <<>>]
  /\ lat = NEPAL_CENTER.lat /\ lon = NEPAL_CENTER.lon /\ looked_up = FALSE
  /\ aoi = create_aoi_from_point(NEPAL_CENTER.lat, NEPAL_CENTER.lon, 5)
  /\ dates = NoDates /\ circle1 = 0 /\ circle2 = 0
  /\ metric1 = NA /\ metric2 = NA /\ prompt = NoPrompt
  /\ faults = {} /\ tables = RepositoryTables /\ all_locations = <<>>

SeriesNext ==
  \/ TimeseriesCall
  \/ TimeseriesStep
  \/ TimeseriesReturn

SpecSeries == SeriesInit /\ [][SeriesNext]_vars

\* -------------------------------------------- the search exercised alone
\* search_location entered with a query
SearchInit ==
  /\ project_id = SomeStr("nepal-forest")
  /\ gemini_api_key = NoneStr
  /\ pc = "search_call"
  /\ start_month = 1 /\ end_month = 3 /\ year1 = 2022 /\ year2 = 2023
  /\ buffer_km = 5 /\ generate_report = TRUE /\ analyze_button = FALSE
  /\ calls = <<>> /\ shown = {}
  /\ mean_ndvi1 = NoneNum /\ mean_ndvi2 = NoneNum
  /\ ndvi_change_pct = Rat(0, 1) /\ alert = "none"
  /\ layer_added1 = FALSE /\ layer_added2 = FALSE
  /\ month = 0 /\ results = <<>> /\ monthLog = <<>>
  /\ timeseries = <<>> /\ timeseries_set = FALSE
  /\ status = "none" /\ report = <<>> /\ llm = NoLlm
  /\ exc = "none"
  /\ location_method = "District/Forest" /\ search_query \in SearchQueries
  /\ filtered_locations = <<>> /\ selected_location = NoPlace
  /\ lat = NEPAL_CENTER.lat /\ lon = NEPAL_CENTER.lon /\ looked_up = FALSE
  /\ aoi = NoAoi /\ dates = NoDates /\ circle1 = 0 /\ circle2 = 0
  /\ metric1 = NA /\ metric2 = NA /\ prompt = NoPrompt
  /\ faults = {} /\ tables = RepositoryTables /\ all_locations = <<>>

\* search_location(query): the call and its result
SearchCall ==
  /\ pc = "search_call"
  /\ all_locations' = get_all_locations
  /\ filtered_locations' = search_location(search_query)
  /\ pc' = "search_done"
  /\ UNCHANGED <<env, widgets, calls, shown, means, ndvi_change_pct, alert, layers,
                 series, timeseries, timeseries_set, narrative, exc, location_method,
                 search_query, selected_location, lat, lon, looked_up, geometry,
                 display, prompt, faults>>

SearchNext == SearchCall

SpecSearch == SearchInit /\ [][SearchNext]_vars

\* --------------------------------------------- the merge exercised alone
\* names and coordinates of the tables given to the merge
MergeNames == {<<65>>, <<66>>}
MergeCoords == {[lat |-> 270000, lon |-> 850000], [lat |-> 280000, lon |-> 860000]}
MergeEntries == {[name |-> n, lat |-> c.lat, lon |-> c.lon] : n \in MergeNames, c \in MergeCoords}
\* every table over these entries: a dict has each key once
SmallTables ==
  {<<>>} \cup {<<e>> : e \in MergeEntries}
  \cup {<<p[1], p[2]>> : p \in {q \in MergeEntries \X MergeEntries : q[1].name # q[2].name}}

\* get_all_locations entered with any two small tables
MergeInit ==
  /\ project_id = SomeStr("nepal-forest")
  /\ gemini_api_key = NoneStr
  /\ pc = "merge_call"
  /\ start_month = 1 /\ end_month = 3 /\ year1 = 2022 /\ year2 = 2023
  /\ buffer_km = 5 /\ generate_report = TRUE /\ analyze_button = FALSE
  /\ calls = <<>> /\ shown = {}
  /\ mean_ndvi1 = NoneNum /\ mean_ndvi2 = NoneNum
  /\ ndvi_change_pct = Rat(0, 1) /\ alert = "none"
  /\ layer_added1 = FALSE /\ layer_added2 = FALSE
  /\ month = 0 /\ results = <<>> /\ monthLog = <<>>
  /\ timeseries = <<>> /\ timeseries_set = FALSE
  /\ status = "none" /\ report = <<>> /\ llm = NoLlm
  /\ exc = "none"
  /\ location_method = "District/Forest" /\ search_query = <<>>
  /\ filtered_locations = <<>> /\ selected_location = NoPlace
  /\ lat = NEPAL_CENTER.lat /\ lon = NEPAL_CENTER.lon /\ looked_up = FALSE
  /\ aoi = NoAoi /\ dates = NoDates /\ circle1 = 0 /\ circle2 = 0
  /\ metric1 = NA /\ metric2 = NA /\ prompt = NoPrompt
  /\ faults = {} /\ all_locations = <<>>
  /\ tables \in [districts : SmallTables, forests : SmallTables]

\* get_all_locations(): the call and its result
MergeCall ==
  /\ pc = "merge_call"
  /\ all_locations' = merge_locations(tables.districts, tables.forests)
  /\ pc' = "merge_done"
  /\ UNCHANGED <<env, widgets, calls, shown, means, ndvi_change_pct, alert, layers,
                 series, timeseries, timeseries_set, narrative, exc, location_method,
                 search_query, filtered_locations, selected_location, lat, lon,
                 looked_up, geometry, display, prompt, faults>>

MergeNext == MergeCall

SpecMerge == MergeInit /\ [][MergeNext]_vars

\* ------------------------------------- the analysis up to the maps, alone
\* every position of the radius slider
AllRadii == 1..20
\* coordinates the number inputs accept: the default, the two corners of
\* their range and Kathmandu
AreaCoords == {NEPAL_CENTER, [lat |-> 260000, lon |-> 800000],
               [lat |-> 310000, lon |-> 890000], [lat |-> 277172, lon |-> 853240]}

\* main() after the sidebar, the button pressed, for any radius and place
AreaInit ==
  /\ project_id = SomeStr("nepal-forest")
  /\ gemini_api_key = NoneStr
  /\ pc = "main"
  /\ start_month = 1 /\ end_month = 3 /\ year1 = 2022 /\ year2 = 2023
  /\ buffer_km \in AllRadii /\ generate_report = TRUE /\ analyze_button = TRUE
  /\ calls = <<"ee.Initialize">> /\ shown = {"location_widgets", "sidebar"}
  /\ mean_ndvi1 = NoneNum /\ mean_ndvi2 = NoneNum
  /\ ndvi_change_pct = Rat(0, 1) /\ alert = "none"
  /\ layer_added1 = FALSE /\ layer_added2 = FALSE
  /\ month = 0 /\ results = <<>> /\ monthLog = <<>>
  /\ timeseries = <<>> /\ timeseries_set = FALSE
  /\ status = "none" /\ report = <<>> /\ llm = NoLlm
  /\ exc = "none"
  /\ location_method = "Coordinates" /\ search_query = <<>>
  /\ filtered_locations = <<>>
  /\ selected_location = [kind |-> "custom", name |-> <<>>]
  /\ \E c \in AreaCoords : lat = c.lat /\ lon = c.lon
  /\ looked_up = FALSE
  /\ aoi = NoAoi /\ dates = NoDates /\ circle1 = 0 /\ circle2 = 0
  /\ metric1 = NA /\ metric2 = NA /\ prompt = NoPrompt
  /\ faults = {} /\ tables = RepositoryTables /\ all_locations = <<>>

AreaNext ==
  \/ FetchComposite1
  \/ FetchComposite2
  \/ ComputeMean1
  \/ ComputeMean2
  \/ AssessChange
  \/ AddLayer1
  \/ AddLayer2

SpecArea == AreaInit /\ [][AreaNext]_vars

\* ---------------------------------------- the two classifiers, alone
\* percentage changes given to the classifiers: every hundredth of a
\* percent from -MaxPct to MaxPct
PctGrid == {Rat(n, 100) : n \in (-(MaxPct * 100))..(MaxPct * 100)}

\* main() with a percentage change computed, before it is classified
TiersInit ==
  /\ project_id = SomeStr("nepal-forest")
  /\ gemini_api_key = SomeStr("key")
  /\ pc = "tiers_alert"
  /\ start_month = 1 /\ end_month = 3 /\ year1 = 2022 /\ year2 = 2023
  /\ buffer_km = 5 /\ generate_report = TRUE /\ analyze_button = TRUE
  /\ calls = <<>> /\ shown = {}
  /\ mean_ndvi1 = NoneNum /\ mean_ndvi2 = NoneNum
  /\ ndvi_change_pct \in PctGrid /\ alert = "none"
  /\ layer_added1 = FALSE /\ layer_added2 = FALSE
  /\ month = 0 /\ results = <<>> /\ monthLog = <<>>
  /\ timeseries = <<>> /\ timeseries_set = FALSE
  /\ status = "none" /\ report = <<>> /\ llm = NoLlm
  /\ exc = "none"
  /\ location_method = "District/Forest" /\ search_query = <<>>
  /\ filtered_locations = <<>> /\ selected_location = NoPlace
  /\ lat = NEPAL_CENTER.lat /\ lon = NEPAL_CENTER.lon /\ looked_up = FALSE
  /\ aoi = NoAoi /\ dates = NoDates /\ circle1 = 0 /\ circle2 = 0
  /\ metric1 = NA /\ metric2 = NA /\ prompt = NoPrompt
  /\ faults = {} /\ tables = RepositoryTables /\ all_locations = <<>>

\* display_degradation_alert(ndvi_change_pct)
TiersAlert ==
  /\ pc = "tiers_alert"
  /\ alert' = display_degradation_alert(ndvi_change_pct)
  /\ pc' = "tiers_status"
  /\ UNCHANGED <<env, widgets, calls, shown, means, ndvi_change_pct, layers, series,
                 timeseries, timeseries_set, narrative, exc, place, geometry,
                 display, prompt, faults>>

\* generate_forest_health_report: "Determine health status", same argument
TiersStatus ==
  /\ pc = "tiers_status"
  /\ status' = determine_health_status(ndvi_change_pct)
  /\ pc' = "tiers_done"
  /\ UNCHANGED <<env, widgets, calls, shown, means, ndvi_change_pct, alert, layers,
                 series, timeseries, timeseries_set, report, llm, exc, place,
                 geometry, display, prompt, faults>>

TiersNext ==
  \/ TiersAlert
  \/ TiersStatus

SpecTiers == TiersInit /\ [][TiersNext]_vars

TypeOK ==
  /\ pc \in {"start", "sidebar", "main", "composite2", "mean1", "mean2", "assess",
             "map1", "map2", "ts_call", "ts_loop", "trend", "narrative", "done", "stopped",
             "sidebar_controls", "crashed", "search_call", "search_done",
             "merge_call", "merge_done", "tiers_alert", "tiers_status", "tiers_done"}
  /\ ndvi_change_pct.den > 0

\* ================================================================ claims
InCalls(c) == \E i \in 1..Len(calls) : calls[i] = c

\* what the four tiers are, stated by intervals
TierAlert(p) ==
  IF RatLt(p, -10) THEN "danger"
  ELSE IF RatGe(p, -10) /\ RatLt(p, -5) THEN "warning"
  ELSE IF RatGe(p, -5) /\ RatLt(p, 0) THEN "minor"
  ELSE "stable"
TierStatus(p) ==
  IF RatLt(p, -10) THEN "CRITICAL"
  ELSE IF RatGe(p, -10) /\ RatLt(p, -5) THEN "WARNING"
  ELSE IF RatGe(p, -5) /\ RatLt(p, 0) THEN "STABLE"
  ELSE "HEALTHY"

\* C1: whenever a tier has been chosen for the percentage change of the run,
\* it is critical below -10, moderate/warning in [-10, -5), stable/minor in
\* [-5, 0) and healthy from 0 on; -10 is moderate, -5 is stable, 0 and 5 are
\* healthy, and the means 0.4000 and 0.3400 give -15 and critical.
C1_TierBoundaries ==
  /\ alert # "none" =>
       /\ alert = TierAlert(ndvi_change_pct)
       /\ RatEq(ndvi_change_pct, -10) => alert = "warning"
       /\ RatEq(ndvi_change_pct, -5) => alert = "minor"
       /\ (RatEq(ndvi_change_pct, 0) \/ RatEq(ndvi_change_pct, 5)) => alert = "stable"
       /\ (mean_ndvi1 = Some(40000) /\ mean_ndvi2 = Some(34000)) =>
             RatEq(ndvi_change_pct, -15) /\ alert = "danger"
  /\ status # "none" =>
       /\ status = TierStatus(ndvi_change_pct)
       /\ RatEq(ndvi_change_pct, -10) => status = "WARNING"
       /\ RatEq(ndvi_change_pct, -5) => status = "STABLE"
       /\ (RatEq(ndvi_change_pct, 0) \/ RatEq(ndvi_change_pct, 5)) => status = "HEALTHY"
       /\ (mean_ndvi1 = Some(40000) /\ mean_ndvi2 = Some(34000)) => status = "CRITICAL"

\* a finished run whose change is exactly -10 and was classified twice
C1_Witness ==
  /\ pc = "done" /\ RatEq(ndvi_change_pct, -10)
  /\ alert = "warning" /\ status = "WARNING"

\* C2: with a present non-zero earlier value and a present later value the
\* percentage change of the run is (v2 - v1) / v1 * 100, also for v2 = 0.
C2_PctFormula ==
  (alert # "none" /\ mean_ndvi1.present /\ mean_ndvi1.val # 0 /\ mean_ndvi2.present) =>
    ndvi_change_pct.num * mean_ndvi1.val
      = (mean_ndvi2.val - mean_ndvi1.val) * 100 * ndvi_change_pct.den

\* C3: an earlier value of 0 or None gives a percentage change of 0 and the
\* healthy/stable tier, whatever the later value is.
C3_ZeroBaseline ==
  (alert # "none" /\ ~Truthy(mean_ndvi1)) =>
    /\ RatEq(ndvi_change_pct, 0)
    /\ alert = "stable"
    /\ status # "none" => status = "HEALTHY"

\* a finished run with an absent earlier value and a usable later one
C3_Witness ==
  /\ pc = "done" /\ ~mean_ndvi1.present /\ mean_ndvi2 = Some(34000)
  /\ alert = "stable" /\ status = "HEALTHY"

\* C4: without a project identifier no backend request is issued, the
\* configuration error is shown and the run stops before the sidebar.
C4_NoBackendWithoutProject ==
  ~TruthyStr(project_id) =>
    /\ calls = <<>>
    /\ "sidebar" \notin shown
    /\ pc \in {"start", "stopped"}
    /\ pc = "stopped" => "config_error" \in shown

\* a stopped run of a session whose project identifier is the empty string
C4_Witness ==
  /\ pc = "stopped" /\ project_id = SomeStr("")
  /\ "config_error" \in shown /\ calls = <<>>

\* C5: with the narrative checkbox off the hosted model is never requested.
C5_NoModelCallWhenDisabled ==
  ~generate_report => (~InCalls("gemini") /\ llm = NoLlm /\ report = <<>>)

\* a complete analysis with a usable key and the checkbox off
C5_Witness ==
  /\ pc = "done" /\ ~generate_report /\ analyze_button /\ exc = "none"
  /\ key_usable(gemini_api_key) /\ timeseries_set /\ "alert" \in shown

\* the key is None, empty or the placeholder
KeyAbsent == ~TruthyStr(gemini_api_key) \/ gemini_api_key.val = "your_gemini_api_key_here"
\* everything the analysis draws before the report section
AnalysisDrawn ==
  /\ {"metrics", "alert", "map1", "map2"} \subseteq shown
  /\ timeseries_set
  /\ IF timeseries # <<>> THEN "trend_chart" \in shown ELSE "trend_warning" \in shown

\* C6: with the checkbox on and the key absent or the placeholder, the hosted
\* model is not requested, and an analysis whose backend queries succeed ends
\* with the key warning after the means, the change assessment, both maps and
\* the monthly trend have been drawn.
C6_MissingKeyDegrades ==
  (generate_report /\ KeyAbsent) =>
    /\ ~InCalls("gemini") /\ llm = NoLlm
    /\ "key_warning" \in shown => AnalysisDrawn
    /\ (pc = "done" /\ analyze_button /\ exc = "none") =>
         ("key_warning" \in shown /\ AnalysisDrawn /\ "report_error" \notin shown)

\* a finished run with the placeholder key, the warning and the trend chart
C6_Witness ==
  /\ pc = "done" /\ generate_report
  /\ gemini_api_key = SomeStr("your_gemini_api_key_here")
  /\ "key_warning" \in shown /\ "trend_chart" \in shown /\ mean_ndvi1.present

\* C7: generate_forest_health_report never raises to main; it returns the
\* model's text verbatim, or "Error generating report: " followed by the
\* message when configuring, building the prompt or the request fails.
C7_NarrativeNeverRaises ==
  llm # NoLlm =>
    /\ exc # "report"
    /\ pc = "done"
    /\ llm.fail = "none" => report = llm.text
    /\ llm.fail # "none" =>
         /\ Len(report) >= Len(ErrorPrefix)
         /\ SubSeq(report, 1, Len(ErrorPrefix)) = ErrorPrefix
         /\ report = ErrorPrefix \o llm.msg

\* the model client failed while being configured, with a message
C7_Witness ==
  /\ llm.fail = "configure" /\ llm.msg = <<"quota exceeded">>
  /\ report = ErrorPrefix \o <<"quota exceeded">> /\ "report_error" \in shown

\* ------------------------------------------------ claims about the series
\* number of months of the requested range
Span == IF end_month - start_month + 1 >= 0 THEN end_month - start_month + 1 ELSE 0
\* the backend raised for the month
Failed(r) == r.count_err \/ (r.count > 0 /\ r.mean_err)
\* the backend answered with images and a present mean
Good(r) == ~r.count_err /\ r.count > 0 /\ ~r.mean_err /\ r.mean.present
\* the list has an entry labelled with month m of the series' year
HasLabel(res, m) == \E j \in 1..Len(res) : res[j].month = FormatLabel(year2, m)

\* C8: a backend failure in one month removes that month only: every month
\* visited whose backend answer is usable is in the list, the months are
\* visited one after the other from start_month, and the function returns
\* after the last month of the range without raising.
C8_FailedMonthOnlyRemoved ==
  /\ \A i \in 1..Len(monthLog) :
       /\ monthLog[i].month = start_month + i - 1
       /\ Failed(monthLog[i].resp) => ~HasLabel(results, monthLog[i].month)
       /\ Good(monthLog[i].resp) => HasLabel(results, monthLog[i].month)
  /\ pc = "ts_loop" => month = start_month + Len(monthLog)
  /\ timeseries_set =>
       /\ Len(monthLog) = Span
       /\ timeseries = results
       /\ exc = "none"

\* a returned series of at least three months whose only missing month is an
\* interior one for which the backend raised
C8_Witness ==
  /\ pc = "trend" /\ timeseries_set /\ Len(monthLog) >= 3
  /\ Len(timeseries) = Len(monthLog) - 1
  /\ \E i \in 2..(Len(monthLog) - 1) :
       Failed(monthLog[i].resp) /\ ~HasLabel(timeseries, monthLog[i].month)

\* C9: the list is never longer than end_month - start_month + 1 (empty when
\* that is negative), its labels increase strictly in string order, and no
\* label occurs twice.
C9_LengthAndOrder ==
  /\ Len(results) <= Span
  /\ Len(timeseries) <= Span
  /\ start_month > end_month => (results = <<>> /\ timeseries = <<>>)
  /\ \A i \in 1..(Len(results) - 1) : LexLess(results[i].month, results[i + 1].month)
  /\ \A i, j \in 1..Len(results) : i # j => results[i].month # results[j].month

\* a returned series from September to December with all four months
C9_Witness ==
  /\ pc = "trend" /\ start_month = 9 /\ end_month = 12
  /\ Len(timeseries) = 4

\* C10: a visited month is in the list exactly when the backend raised no
\* error for it, counted at least one image and returned a present mean; a
\* mean of exactly 0 is listed as 0; no entry has a null value and the list
\* has no entry besides those months.
C10_IncludedIff ==
  /\ \A i \in 1..Len(monthLog) :
       /\ HasLabel(results, monthLog[i].month) <=> Good(monthLog[i].resp)
       /\ (Good(monthLog[i].resp) /\ monthLog[i].resp.mean = Some(0)) =>
            \E j \in 1..Len(results) :
              results[j] = [month |-> FormatLabel(year2, monthLog[i].month), ndvi |-> Some(0)]
  /\ \A j \in 1..Len(results) : results[j].ndvi.present
  /\ Len(results) = Cardinality({i \in 1..Len(monthLog) : Good(monthLog[i].resp)})

\* a returned series that lists a month whose mean is exactly 0 and omits a
\* month whose mean is absent
C10_Witness ==
  /\ pc = "trend" /\ timeseries_set
  /\ Len(timeseries) = Len(monthLog) - 1
  /\ \E i, k \in 1..Len(monthLog) :
       /\ Good(monthLog[i].resp) /\ monthLog[i].resp.mean = Some(0)
       /\ HasLabel(timeseries, monthLog[i].month)
       /\ ~monthLog[k].resp.count_err /\ monthLog[k].resp.count > 0
       /\ ~monthLog[k].resp.mean_err /\ ~monthLog[k].resp.mean.present
       /\ ~HasLabel(timeseries, monthLog[k].month)

\* ------------------------------------------- claims about failures of a run
\* the queries of the analysis that raise into main()
RaisingQueries == {"composite1", "composite2", "mean1", "mean2"}
\* the tile requests, which add_ee_layer guards itself
TileQueries == {"getMapId1", "getMapId2"}
\* results an analysis draws
PartialResults == {"success", "metrics", "alert", "map1", "map2", "trend_chart"}

\* C11 as stated: a failure of any backend query of the analysis, the tile
\* requests included, is reported by the error message of the outermost
\* handler and no result of the run is on the page with it.
C11_AnyQueryFailureAtBoundary ==
  \A f \in RaisingQueries \cup TileQueries :
    f \in faults =>
      /\ exc # "none"
      /\ "analysis_error" \in shown
      /\ shown \cap PartialResults = {}

\* C11: a failed composite fetch or mean reduction ends the run in the one
\* error message of the outermost handler with no result of the run on the
\* page; a failed tile request is handled inside add_ee_layer: the run goes
\* on, the warning is shown next to the metrics, the alert and the map.
C11_QueryFailureHandling ==
  /\ \A f \in RaisingQueries :
       f \in faults =>
         /\ exc = f /\ pc = "done"
         /\ "analysis_error" \in shown
         /\ shown \cap PartialResults = {}
         /\ faults \cap (RaisingQueries \cup TileQueries) = {f}
  /\ exc # "none" => exc \in faults
  /\ "getMapId1" \in faults =>
       /\ exc = "none" /\ ~layer_added1
       /\ {"layer_warning1", "metrics", "alert", "map1"} \subseteq shown
       /\ "analysis_error" \notin shown
  /\ "getMapId2" \in faults =>
       /\ exc = "none" /\ ~layer_added2
       /\ {"layer_warning2", "metrics", "alert", "map1", "map2"} \subseteq shown
       /\ "analysis_error" \notin shown

\* a finished run whose second tile request failed, with its results shown
C11_Witness ==
  /\ pc = "done" /\ "getMapId2" \in faults /\ exc = "none"
  /\ {"layer_warning2", "metrics", "alert", "map2", "trend_chart"} \subseteq shown

\* position of a backend request in the order of the steps
Rank(c) ==
  CASE c = "ee.Initialize" -> 0
    [] c = "composite1" -> 1
    [] c = "composite2" -> 2
    [] c = "mean1" -> 3
    [] c = "mean2" -> 4
    [] c = "getMapId1" -> 5
    [] c = "getMapId2" -> 6
    [] c \in {"size", "reduceRegion"} -> 7
    [] c = "gemini" -> 8

\* C12: the requests of a run go out in the order location, composite of
\* year 1, composite of year 2, the two means, the monthly series, the
\* narrative; none but the monthly queries is repeated; the hosted model is
\* requested at most once, only when enabled and only after the monthly
\* series has returned.
C12_StepOrder ==
  /\ \A i \in 1..(Len(calls) - 1) :
       /\ Rank(calls[i]) <= Rank(calls[i + 1])
       /\ Rank(calls[i]) = Rank(calls[i + 1]) => Rank(calls[i]) = 7
  /\ InCalls("composite1") => selected_location # NoPlace /\ "location_widgets" \in shown
  /\ InCalls("composite2") => InCalls("composite1")
  /\ InCalls("mean1") => InCalls("composite2")
  /\ InCalls("mean2") => InCalls("mean1")
  /\ pc \in {"ts_call", "ts_loop", "trend"} \/ InCalls("size") => InCalls("mean2") /\ alert # "none"
  /\ pc = "ts_loop" => ~timeseries_set
  /\ InCalls("gemini") =>
       /\ timeseries_set /\ timeseries = results /\ Len(monthLog) = Span
       /\ generate_report /\ pc = "done"
       /\ InCalls("mean2")

\* a finished run whose narrative was requested after a two-month series
C12_Witness ==
  /\ pc = "done" /\ InCalls("gemini") /\ InCalls("reduceRegion")
  /\ Len(timeseries) = 2 /\ calls[Len(calls)] = "gemini"

\* the run has ended: the script returned, or st.stop() ended it
RunEnded == pc \in {"done", "stopped"}
\* a failure of one of the six kinds happened in the run
ConfigMissing == pc = "stopped" /\ missing_project(project_id)
InitFailed == "ee.Initialize" \in faults
QueryFailed == faults \cap RaisingQueries # {}
TileFailed == faults \cap TileQueries # {}
NarrativeFailed == "gemini" \in faults
EmptySearch ==
  /\ pc \notin {"start", "sidebar"}
  /\ location_method = "District/Forest" /\ search_query # <<>> /\ filtered_locations = <<>>
SomeFailure ==
  ConfigMissing \/ InitFailed \/ QueryFailed \/ TileFailed \/ NarrativeFailed \/ EmptySearch

\* C13 as stated: after every failure of a run a message is on the page, no
\* exception is left uncaught, and the page holds the controls by which the
\* user chooses other parameters and starts an analysis.
C13_EveryFailureOffersRetry ==
  (RunEnded /\ SomeFailure) =>
    /\ pc # "crashed"
    /\ shown \cap {"config_error", "init_error", "analysis_error", "layer_warning1",
                   "layer_warning2", "report_error", "no_match_warning"} # {}
    /\ "sidebar" \in shown

\* C13: every failure of a run ends in its message and no exception is left
\* uncaught; no run is stuck; after a query, tile, narrative or search
\* failure the controls are on the page, whereas a missing configuration or
\* a failed backend initialisation stops the run before any control is
\* drawn, so that the user can only run the script again.
C13_FailuresEndInMessage ==
  /\ pc # "crashed"
  /\ ENABLED Next
  /\ RunEnded => ENABLED Rerun
  /\ ConfigMissing => ("config_error" \in shown /\ "sidebar" \notin shown)
  /\ InitFailed => (pc = "stopped" /\ "init_error" \in shown /\ "sidebar" \notin shown)
  /\ pc = "stopped" => (ConfigMissing \/ InitFailed) /\ shown \cap PartialResults = {}
  /\ QueryFailed => (pc = "done" /\ "analysis_error" \in shown /\ "sidebar" \in shown)
  /\ "getMapId1" \in faults => ("layer_warning1" \in shown /\ "sidebar" \in shown)
  /\ "getMapId2" \in faults => ("layer_warning2" \in shown /\ "sidebar" \in shown)
  /\ NarrativeFailed => (pc = "done" /\ "report_error" \in shown /\ "sidebar" \in shown)
  /\ EmptySearch => "no_match_warning" \in shown
  /\ (EmptySearch /\ RunEnded) => "sidebar" \in shown

\* a finished run in which the search, a tile request and the narrative
\* failed, each with its message, the controls being on the page
C13_Witness ==
  /\ pc = "done" /\ EmptySearch /\ "getMapId1" \in faults /\ NarrativeFailed
  /\ {"no_match_warning", "layer_warning1", "report_error", "sidebar"} \subseteq shown
  /\ exc = "none"

\* ------------------------------------------ claims about the gazetteer
\* two characters are the same letter, whatever their case
SameLetter(a, b) ==
  \/ a = b
  \/ a \in 65..90 /\ b = a + 32
  \/ b \in 65..90 /\ a = b + 32
\* q occurs in n as a substring, letters compared without case
MatchesQuery(q, n) ==
  \E i \in 0..(Len(n) - Len(q)) : \A j \in 1..Len(q) : SameLetter(n[i + j], q[j])
\* the element occurs in the sequence
InSeq(s, x) == \E i \in 1..Len(s) : s[i] = x
\* the entry of a table under a name
Entry(d, n) == CHOOSE e \in {d[i] : i \in 1..Len(d)} : e.name = n

\* C14: search_location returns the gazetteer names that contain the query
\* as a substring, case ignored on both sides, each once and in increasing
\* string order; a query no name contains gives the empty list; "kath"
\* gives "Kathmandu".
C14_SearchResult ==
  pc = "search_done" =>
    /\ \A i \in 1..Len(all_locations) :
         InSeq(filtered_locations, all_locations[i].name)
           <=> MatchesQuery(search_query, all_locations[i].name)
    /\ \A k \in 1..Len(filtered_locations) : HasKey(all_locations, filtered_locations[k])
    /\ \A k \in 1..(Len(filtered_locations) - 1) :
         LexLess(filtered_locations[k], filtered_locations[k + 1])
    /\ (\A i \in 1..Len(all_locations) : ~MatchesQuery(search_query, all_locations[i].name))
         => filtered_locations = <<>>
    /\ search_query = <<107, 97, 116, 104>> =>
         InSeq(filtered_locations, <<75, 97, 116, 104, 109, 97, 110, 100, 117>>)

\* the query "KATH" answered with "Kathmandu" and then the Shivapuri buffer
C14_Witness ==
  /\ pc = "search_done" /\ search_query = <<75, 65, 84, 72>>
  /\ Len(filtered_locations) = 2
  /\ filtered_locations[1] = <<75, 97, 116, 104, 109, 97, 110, 100, 117>>
  /\ filtered_locations[2] = COMMUNITY_FORESTS[1].name

\* C15: a search without a match shows the warning and raises nothing: no
\* coordinate lookup is made, the place is "Unknown Location" at the centre
\* of Nepal, the remaining controls are drawn and the run goes on; a lookup
\* is only ever made for a name of the gazetteer.
C15_NoMatchFailsSoftly ==
  /\ EmptySearch =>
       /\ "no_match_warning" \in shown
       /\ ~looked_up
       /\ selected_location = [kind |-> "unknown", name |-> <<>>]
       /\ lat = NEPAL_CENTER.lat /\ lon = NEPAL_CENTER.lon
       /\ pc \notin {"crashed", "stopped"}
       /\ pc = "sidebar_controls" => ENABLED Sidebar
       /\ pc # "sidebar_controls" => "sidebar" \in shown
  /\ looked_up =>
       /\ HasKey(all_locations, selected_location.name)
       /\ lat = Entry(all_locations, selected_location.name).lat
       /\ lon = Entry(all_locations, selected_location.name).lon

\* a finished analysis around the centre of Nepal after a search for "zzz"
C15_Witness ==
  /\ pc = "done" /\ EmptySearch /\ search_query = <<122, 122, 122>>
  /\ {"no_match_warning", "sidebar", "metrics"} \subseteq shown
  /\ aoi.lat = NEPAL_CENTER.lat /\ aoi.lon = NEPAL_CENTER.lon

\* a name of both tables
Shared(n) == HasKey(tables.districts, n) /\ HasKey(tables.forests, n)

LexLeq(a, b) == a = b \/ LexLess(a, b)

\* C17: the date range of each comparison year starts on day 01 of
\* start_month, ends on day 28 of end_month of the same year, and its start
\* is not after its end.
C17_StartNotAfterEnd ==
  dates # NoDates =>
    /\ dates.start_date1 = <<year1, start_month \div 10, start_month % 10, 0, 1>>
    /\ dates.end_date1 = <<year1, end_month \div 10, end_month % 10, 2, 8>>
    /\ dates.start_date2 = <<year2, start_month \div 10, start_month % 10, 0, 1>>
    /\ dates.end_date2 = <<year2, end_month \div 10, end_month % 10, 2, 8>>
    /\ LexLeq(dates.start_date1, dates.end_date1)
    /\ LexLeq(dates.start_date2, dates.end_date2)

\* C18: in the metrics and in the prompt a mean is "N/A" exactly when it is
\* absent; a present mean, 0 included, is shown with its four decimals.
C18_NAIffAbsent ==
  /\ "metrics" \in shown =>
       /\ metric1.na <=> ~mean_ndvi1.present
       /\ metric2.na <=> ~mean_ndvi2.present
       /\ mean_ndvi1.present => metric1 = [na |-> FALSE, digits |-> Round4(mean_ndvi1.val)]
       /\ mean_ndvi2.present => metric2 = [na |-> FALSE, digits |-> Round4(mean_ndvi2.val)]
  /\ prompt.built =>
       /\ prompt.ndvi1_str.na <=> ~mean_ndvi1.present
       /\ prompt.ndvi2_str.na <=> ~mean_ndvi2.present
       /\ mean_ndvi1.present =>
            prompt.ndvi1_str = [na |-> FALSE, digits |-> Round4(mean_ndvi1.val)]
       /\ mean_ndvi2.present =>
            prompt.ndvi2_str = [na |-> FALSE, digits |-> Round4(mean_ndvi2.val)]

\* C19: the area of interest is the disk around the chosen coordinate whose
\* radius is the slider's kilometres times 1000, in metres, for every
\* position 1..20 of the slider, and the circle of each comparison map has
\* that same radius.
C19_RadiusInMetres ==
  /\ buffer_km \in 1..20
  /\ aoi # NoAoi =>
       /\ aoi.lat = lat /\ aoi.lon = lon
       /\ aoi.radius_m = buffer_km * 1000
  /\ "map1" \in shown => (circle1 = buffer_km * 1000 /\ circle1 = aoi.radius_m)
  /\ "map2" \in shown => (circle2 = buffer_km * 1000 /\ circle2 = aoi.radius_m)

\* both maps drawn around Kathmandu with the slider at 20 km
C19_Witness ==
  /\ pc = "ts_call" /\ buffer_km = 20 /\ lat = 277172 /\ lon = 853240
  /\ aoi = [lat |-> 277172, lon |-> 853240, radius_m |-> 20000]
  /\ circle1 = 20000 /\ circle2 = 20000

\* the month number written in a date
MonthOf(d) == d[2] * 10 + d[3]

\* C20: the date range queried for month m of the series' year y starts on
\* day 01 of (y, m) and ends on day 01 of the next calendar month, which for
\* December is January 01 of y + 1; no date has a month number outside 1..12.
C20_MonthRange ==
  \A i \in 1..Len(monthLog) :
    LET m == monthLog[i].month
        s == monthLog[i].start_date
        e == monthLog[i].end_date
    IN /\ m \in 1..12
       /\ s = <<year2, m \div 10, m % 10, 0, 1>>
       /\ m < 12 => e = <<year2, (m + 1) \div 10, (m + 1) % 10, 0, 1>>
       /\ m = 12 => e = <<year2 + 1, 0, 1, 0, 1>>
       /\ MonthOf(s) \in 1..12 /\ MonthOf(e) \in 1..12
       /\ LexLess(s, e)

\* a returned series of 2023 that queried December up to 2024-01-01
C20_Witness ==
  /\ pc = "trend" /\ timeseries_set /\ year2 = 2023 /\ Len(monthLog) >= 2
  /\ monthLog[Len(monthLog)].month = 12
  /\ monthLog[Len(monthLog)].start_date = <<2023, 1, 2, 0, 1>>
  /\ monthLog[Len(monthLog)].end_date = <<2024, 0, 1, 0, 1>>

\* --------------------------------------- claims about the two classifiers
\* the status label that names the same tier as the alert box
StatusOfAlert(a) ==
  CASE a = "danger" -> "CRITICAL"
    [] a = "warning" -> "WARNING"
    [] a = "minor" -> "STABLE"
    [] a = "stable" -> "HEALTHY"

\* C21: for one percentage change the alert box drawn and the status label
\* written into the prompt name the same tier: danger with CRITICAL, warning
\* with WARNING, minor change with STABLE, stable with HEALTHY.
C21_ClassifiersAgree ==
  (alert # "none" /\ status # "none") =>
    /\ status = StatusOfAlert(alert)
    /\ alert = "danger" <=> RatLt(ndvi_change_pct, -10)
    /\ status = "HEALTHY" <=> RatGe(ndvi_change_pct, 0)

\* both classifiers applied to exactly -5: minor change and STABLE
C21_Witness ==
  /\ pc = "tiers_done" /\ RatEq(ndvi_change_pct, -5)
  /\ alert = "minor" /\ status = "STABLE"

\* C22: the download button is drawn only when the hosted model was
\* requested, answered, and its text is non-empty and does not begin with
\* "Error"; a returned text that begins with "Error", be it the error string
\* of the function or the model's own words, is shown as an error and is
\* not offered for download; so is an empty text.
C22_DownloadOnlyGenuineReport ==
  /\ "download_button" \in shown =>
       /\ InCalls("gemini") /\ llm.fail = "none"
       /\ report = llm.text /\ Len(report) > 0 /\ report[1] # "Error"
       /\ "ai_report" \in shown /\ "report_error" \notin shown
  /\ (llm # NoLlm /\ Len(report) > 0 /\ report[1] = "Error") =>
       ("report_error" \in shown /\ "download_button" \notin shown)
  /\ (llm # NoLlm /\ llm.fail # "none") =>
       (Len(report) > 0 /\ report[1] = "Error")
  /\ (llm # NoLlm /\ report = <<>>) =>
       ("report_error" \in shown /\ "download_button" \notin shown)

\* the model was requested and its own answer begins with "Error": it is
\* shown as an error, without a download
C22_Witness ==
  /\ pc = "done" /\ InCalls("gemini") /\ llm.fail = "none"
  /\ report = <<"Error", " margins are small">>
  /\ "report_error" \in shown /\ "download_button" \notin shown

====
